---- MODULE Spec2Model ----
(***************************************************************************)
(* titr: the time-entry parser and the console session it feeds.           *)
(*                                                                         *)
(* Three specifications: SpecParser (_parse_time_entry on one line),       *)
(* SpecHandler (the add_entry handler called directly) and Spec (one run   *)
(* of the program: the console loop, the Outlook import, --start, --end).  *)
(*                                                                         *)
(* Representation of Python values:                                        *)
(*  - a float is a record [k, n, d]: k = "num" with the reduced fraction   *)
(*    n/d (d > 0), or k = "nan" / "inf" / "tiny" (1e-20);                  *)
(*  - a str that the user types (a line, a comment) is the sequence of its *)
(*    pieces: SP for one space character, or a word (a non-empty run of    *)
(*    non-space characters); no two words are adjacent;                    *)
(*  - a token (an element of str.split(" ")) is a word or "" ;             *)
(*  - Optional[x] is <<>> for None and <<x>> otherwise.                    *)
(***************************************************************************)
EXTENDS Integers, Sequences, FiniteSets, TLC

VARIABLES
    pc,            \* position of the process: main, console, import, ...
    time_entries,  \* ConsoleSession.time_entries (the pending list)
    date,          \* ConsoleSession.date (the date cursor), a day number
    today,         \* datetime.date.today(), a day number
    outlook_item,  \* ConsoleSession.outlook_item (the import context)
    outlook_queue, \* appointments each running import has still to offer
    match_pattern, \* _PATTERN_LIST["add_entry"].match_pattern
    enabled,       \* _COMMAND_LIST[c].enabled for c in date, write, quit
    time_log,      \* rows of the time_log table
    sessions,      \* rows of the sessions table: the input_type of each
    n_commands,    \* lines read at the prompt so far
    last           \* the last operation: its input and its outcome

vars == <<pc, time_entries, date, today, outlook_item, outlook_queue,
          match_pattern, enabled, time_log, sessions, n_commands, last>>

---------------------------------------------------------------------------
(* Bounds *)

\* most argument tokens after the duration in a line given to the parser
MaxArgs == 4

\* most commands typed at the prompt in one run
MaxCommands == 3

\* most appointments Outlook returns for one day
MaxItems == 2

\* most midnights that pass during one run
MaxDays == 2

---------------------------------------------------------------------------
(* Optional values *)

None == <<>>
Some(x) == <<x>>

---------------------------------------------------------------------------
(* Floats *)

RECURSIVE GCD(_, _)
GCD(a, b) == IF b = 0 THEN a ELSE GCD(b, a % b)

Abs(a) == IF a < 0 THEN -a ELSE a

\* the fraction n/d (d # 0), reduced, with a positive denominator
Num(n, d) ==
    LET g == GCD(Abs(n), Abs(d))
        s == IF d < 0 THEN -1 ELSE 1
    IN [k |-> "num", n |-> (s * n) \div g, d |-> (s * d) \div g]

NaN == [k |-> "nan", n |-> 0, d |-> 1]
Inf == [k |-> "inf", n |-> 0, d |-> 1]
Zero == Num(0, 1)

\* 1e-20: a positive double below half an ulp of every other modelled value,
\* so that adding it to one of them, or subtracting one of them from it,
\* rounds it away
Tiny == [k |-> "tiny", n |-> 0, d |-> 1]

isnan(x) == x.k = "nan"

\* x > y and x < y on floats: every comparison with nan is false
FGt(x, y) ==
    CASE x.k = "nan" \/ y.k = "nan" -> FALSE
      [] x.k = "inf" -> y.k # "inf"
      [] y.k = "inf" -> FALSE
      [] x.k = "tiny" -> y.k = "num" /\ y.n <= 0
      [] y.k = "tiny" -> x.n > 0
      [] OTHER -> x.n * y.d > y.n * x.d

FLt(x, y) == FGt(y, x)

\* x + y, x - y, x * y, x / y on finite doubles: exact on the modelled
\* fractions, round-to-nearest where Tiny meets one of them
FAdd(x, y) ==
    CASE x.k = "nan" \/ y.k = "nan" -> NaN
      [] x.k = "tiny" -> IF y = Zero THEN Tiny ELSE y
      [] y.k = "tiny" -> IF x = Zero THEN Tiny ELSE x
      [] x.k = "num" /\ y.k = "num" -> Num(x.n * y.d + y.n * x.d, x.d * y.d)

FSub(x, y) ==
    CASE x.k = "nan" \/ y.k = "nan" -> NaN
      [] x.k = "tiny" /\ y.k = "num" -> IF y = Zero THEN Tiny ELSE Num(-y.n, y.d)
      [] x.k = "num" /\ y.k = "num" -> Num(x.n * y.d - y.n * x.d, x.d * y.d)

FMul(x, y) ==
    CASE x.k = "nan" \/ y.k = "nan" -> NaN
      [] x.k = "num" /\ y.k = "num" -> Num(x.n * y.n, x.d * y.d)

FDiv(x, y) ==
    CASE x.k = "nan" \/ y.k = "nan" -> NaN
      [] x.k = "num" /\ y.k = "num" -> Num(x.n * y.d, x.d * y.n)

---------------------------------------------------------------------------
(* Tokens: what float(), int() and str.lower() do on them *)

\* tokens float() accepts
FloatTokens ==
    {"0", "1", "9", "10", "-1", ".5", "2", "3", "5", "2.5", "1e-20", "nan", "inf",
     "-800000"}

\* tokens int() accepts
IntTokens == {"0", "1", "9", "10", "-1", "2", "3", "5", "-800000"}

\* words that are no number
WordTokens == {"i", "I", "d", "x"}

float(tok) ==
    CASE tok = "0" -> Num(0, 1)
      [] tok = "1" -> Num(1, 1)
      [] tok = "9" -> Num(9, 1)
      [] tok = "10" -> Num(10, 1)
      [] tok = "-1" -> Num(-1, 1)
      [] tok = ".5" -> Num(1, 2)
      [] tok = "2" -> Num(2, 1)
      [] tok = "3" -> Num(3, 1)
      [] tok = "5" -> Num(5, 1)
      [] tok = "2.5" -> Num(5, 2)
      [] tok = "1e-20" -> Tiny
      [] tok = "nan" -> NaN
      [] tok = "inf" -> Inf
      [] tok = "-800000" -> Num(-800000, 1)

int(tok) ==
    CASE tok = "0" -> 0
      [] tok = "1" -> 1
      [] tok = "9" -> 9
      [] tok = "10" -> 10
      [] tok = "-1" -> -1
      [] tok = "2" -> 2
      [] tok = "3" -> 3
      [] tok = "5" -> 5
      [] tok = "-800000" -> -800000

lower(tok) == IF tok = "I" THEN "i" ELSE tok

is_float(item) == item \in FloatTokens

---------------------------------------------------------------------------
(* Strings *)

SP == " "
EmptyStr == <<>>

\* the str of one token
Str(tok) == IF tok = "" THEN <<>> ELSE <<tok>>

\* s.split(" ")
RECURSIVE split(_)
split(s) ==
    IF s = <<>> THEN <<"">>
    ELSE IF Head(s) = SP THEN <<"">> \o split(Tail(s))
    ELSE <<Head(s)>> \o Tail(split(Tail(s)))

\* " ".join(tokens)
RECURSIVE join(_)
join(tokens) ==
    IF tokens = <<>> THEN <<>>
    ELSE IF Len(tokens) = 1 THEN Str(tokens[1])
    ELSE Str(tokens[1]) \o <<SP>> \o join(Tail(tokens))

RECURSIVE lstrip(_)
lstrip(s) == IF s # <<>> /\ Head(s) = SP THEN lstrip(Tail(s)) ELSE s

RECURSIVE rstrip(_)
rstrip(s) ==
    IF s # <<>> /\ s[Len(s)] = SP THEN rstrip(SubSeq(s, 1, Len(s) - 1)) ELSE s

\* s.strip()
strip(s) == rstrip(lstrip(s))

---------------------------------------------------------------------------
(* Config: the values load_config reads from the default titr.cfg *)

config_category_list == (2 :> "Deep Work") @@ (3 :> "Email") @@ (4 :> "Meetings")
config_task_list == ("i" :> "Incidental") @@ ("d" :> "Default Task")
config_default_category == 2
config_default_task == "d"
config_max_duration == 9

config_skip_event_status == {0, 3}
config_skip_event_names == {<<>>}
config_skip_all_day_events == TRUE

config ==
    [skip_event_status |-> config_skip_event_status,
     skip_event_names |-> config_skip_event_names,
     skip_all_day_events |-> config_skip_all_day_events,
     category_list |-> config_category_list,
     task_list |-> config_task_list,
     default_category |-> config_default_category,
     default_task |-> config_default_task,
     max_duration |-> Num(config_max_duration, 1)]

---------------------------------------------------------------------------
(* TimeEntry *)

\* TimeEntry(duration): every other field at its dataclass default
TimeEntry(duration) ==
    [duration |-> duration, category |-> None, task |-> None, date |-> None,
     start_ts |-> None, end_ts |-> None, time_log_id |-> None,
     comment |-> EmptyStr, cat_str |-> "", tsk_str |-> ""]

---------------------------------------------------------------------------
(* _parse_time_entry *)

\* what a call gives: a returned value or a raised exception
Return(v) == [kind |-> "return", value |-> v, err |-> "none"]
Raise(e) == [kind |-> "raise", value |-> None, err |-> e]

Rest(s, k) == SubSeq(s, k, Len(s))

\* the guard "is_float(cat_key) and int(cat_key) in category_list.keys()":
\* int() raises ValueError on a float literal that is no integer literal
CatKeyGuard(cfg, cat_key) ==
    IF ~is_float(cat_key) THEN "False"
    ELSE IF cat_key \notin IntTokens THEN "ValueError"
    ELSE IF int(cat_key) \in DOMAIN cfg.category_list THEN "True"
    ELSE "False"

\* mutant: the task key is looked up as typed, without lower()
TaskKeyGuard_CaseSensitive(cfg, task) == task \in DOMAIN cfg.task_list

TaskKeyGuard(cfg, task) == lower(task) \in DOMAIN cfg.task_list

\* "if comment: new_entry.comment = ' '.join(comment).strip()"
WithComment(entry, comment) ==
    IF comment # <<>> THEN [entry EXCEPT !.comment = strip(join(comment))]
    ELSE entry

\* case (str(cat_key), str(task), *comment): category, task and comment
RuleCategoryTask(new_entry, entry_args) ==
    WithComment([new_entry EXCEPT !.category = Some(int(entry_args[1])),
                                  !.task = Some(entry_args[2])],
                Rest(entry_args, 3))

\* mutant: the token after the category is dropped from the comment
RuleCategory_DropsToken(new_entry, entry_args) ==
    WithComment([new_entry EXCEPT !.category = Some(int(entry_args[1]))],
                Rest(entry_args, 3))

\* case (str(cat_key), *comment): category and comment
RuleCategory(new_entry, entry_args) ==
    WithComment([new_entry EXCEPT !.category = Some(int(entry_args[1]))],
                Rest(entry_args, 2))

\* mutant: the task is stored case-folded instead of as typed
RuleTask_StoresLower(new_entry, entry_args) ==
    WithComment([new_entry EXCEPT !.task = Some(lower(entry_args[1]))],
                Rest(entry_args, 2))

\* case (str(task), *comment): task and comment
RuleTask(new_entry, entry_args) ==
    WithComment([new_entry EXCEPT !.task = Some(entry_args[1])],
                Rest(entry_args, 2))

\* case (str(cat_key), str(task), *comment): comment only
RuleComment(new_entry, entry_args) ==
    LET new_comment ==
            strip(Str(entry_args[1]) \o <<SP>> \o Str(entry_args[2])
                  \o <<SP>> \o join(Rest(entry_args, 3)))
    IN IF new_comment # EmptyStr
       THEN [new_entry EXCEPT !.comment = strip(new_comment)]
       ELSE new_entry

\* case comment: everything is the comment
RuleFallback(new_entry, entry_args) ==
    [new_entry EXCEPT !.comment = strip(join(entry_args))]

\* the match statement over entry_args: the first case that matches wins, and
\* a guard that raises ends the call
MatchEntryArgs(cfg, new_entry, entry_args) ==
    LET n == Len(entry_args) IN
    IF n = 0 THEN Return(Some(new_entry))
    ELSE IF CatKeyGuard(cfg, entry_args[1]) = "ValueError" THEN Raise("ValueError")
    ELSE IF /\ n >= 2
            /\ CatKeyGuard(cfg, entry_args[1]) = "True"
            /\ TaskKeyGuard(cfg, entry_args[2])
    THEN Return(Some(RuleCategoryTask(new_entry, entry_args)))
    ELSE IF CatKeyGuard(cfg, entry_args[1]) = "True"
    THEN Return(Some(RuleCategory(new_entry, entry_args)))
    ELSE IF ~is_float(entry_args[1]) /\ TaskKeyGuard(cfg, entry_args[1])
    THEN Return(Some(RuleTask(new_entry, entry_args)))
    ELSE IF /\ n >= 2
            /\ ~is_float(entry_args[1])
            /\ ~TaskKeyGuard(cfg, entry_args[2])
    THEN Return(Some(RuleComment(new_entry, entry_args)))
    ELSE Return(Some(RuleFallback(new_entry, entry_args)))

\* mutant: the math.isnan check is missing
CheckDuration_NoNanCheck(cfg, tok) ==
    IF ~is_float(tok) THEN "InputError"
    ELSE IF FGt(float(tok), cfg.max_duration) THEN "InputError"
    ELSE IF FLt(float(tok), Zero) THEN "InputError"
    ELSE "ok"

\* the checks on the duration token
CheckDuration(cfg, tok) ==
    IF ~is_float(tok) THEN "InputError"
    ELSE IF isnan(float(tok)) THEN "InputError"
    ELSE IF FGt(float(tok), cfg.max_duration) THEN "InputError"
    ELSE IF FLt(float(tok), Zero) THEN "InputError"
    ELSE "ok"

_parse_time_entry(cfg, raw_input) ==
    IF raw_input = EmptyStr THEN Return(None)
    ELSE LET user_input == split(raw_input) IN
         IF CheckDuration(cfg, user_input[1]) # "ok" THEN Raise("InputError")
         ELSE MatchEntryArgs(cfg, TimeEntry(Some(float(user_input[1]))),
                             Tail(user_input))

---------------------------------------------------------------------------
(* ConsoleSession and the console commands *)

\* mutant: the date cursor is stamped on every entry, dated or not
ConsoleSession_add_entry_StampsDate(cfg, cur_date, entry, set_defaults) ==
    LET e1 == [entry EXCEPT !.date = Some(cur_date)]
        e2 == IF set_defaults
              THEN [e1 EXCEPT
                      !.category = IF e1.category = None
                                   THEN Some(cfg.default_category) ELSE e1.category,
                      !.task = IF e1.task = None
                               THEN Some(cfg.default_task) ELSE e1.task]
              ELSE e1
    IN [e2 EXCEPT
          !.cat_str = IF e2.category # None /\ e2.category[1] # 0
                      THEN cfg.category_list[e2.category[1]] ELSE "",
          !.tsk_str = IF e2.task # None /\ e2.task[1] # ""
                      THEN cfg.task_list[lower(e2.task[1])] ELSE ""]

\* ConsoleSession.add_entry: the entry as it is stored (date, defaults and the
\* display names resolved)
ConsoleSession_add_entry(cfg, cur_date, entry, set_defaults) ==
    LET e1 == IF entry.date = None THEN [entry EXCEPT !.date = Some(cur_date)]
              ELSE entry
        e2 == IF set_defaults
              THEN [e1 EXCEPT
                      !.category = IF e1.category = None
                                   THEN Some(cfg.default_category) ELSE e1.category,
                      !.task = IF e1.task = None
                               THEN Some(cfg.default_task) ELSE e1.task]
              ELSE e1
    IN [e2 EXCEPT
          !.cat_str = IF e2.category # None /\ e2.category[1] # 0
                      THEN cfg.category_list[e2.category[1]] ELSE "",
          !.tsk_str = IF e2.task # None /\ e2.task[1] # ""
                      THEN cfg.task_list[lower(e2.task[1])] ELSE ""]

\* mutant: the category of the import context replaces the one typed
BlendOutlook_OverwritesCategory(new_entry, item) ==
    LET e0 == IF new_entry = None THEN TimeEntry(None) ELSE new_entry[1]
        e1 == IF e0.duration = None THEN [e0 EXCEPT !.duration = Some(item[1])] ELSE e0
        e2 == [e1 EXCEPT !.category = Some(item[2])]
    IN IF e2.comment = EmptyStr THEN [e2 EXCEPT !.comment = item[3]] ELSE e2

\* mutant: the comment of the import context is never used
BlendOutlook_NoComment(new_entry, item) ==
    LET e0 == IF new_entry = None THEN TimeEntry(None) ELSE new_entry[1]
        e1 == IF e0.duration = None THEN [e0 EXCEPT !.duration = Some(item[1])] ELSE e0
    IN IF e1.category = None THEN [e1 EXCEPT !.category = Some(item[2])] ELSE e1

\* add_entry, "if console.outlook_item:": the parse result blended with the
\* import context item = <<duration, category, comment>>
BlendOutlook(new_entry, item) ==
    LET e0 == IF new_entry = None THEN TimeEntry(None) ELSE new_entry[1]
        e1 == IF e0.duration = None THEN [e0 EXCEPT !.duration = Some(item[1])] ELSE e0
        e2 == IF e1.category = None THEN [e1 EXCEPT !.category = Some(item[2])] ELSE e1
    IN IF e2.comment = EmptyStr THEN [e2 EXCEPT !.comment = item[3]] ELSE e2

\* mutant: the entry is stored whatever its duration
Stores_AnyDuration(new_entry) == new_entry # None

\* add_entry, "if new_entry and new_entry.duration != 0:"
Stores(new_entry) == new_entry # None /\ new_entry[1].duration # Some(Zero)

\* the add_entry handler: <<the call's outcome, the pending list after it>>
add_entry(cfg, entries, cur_date, item, user_input) ==
    LET parsed == _parse_time_entry(cfg, user_input) IN
    IF parsed.kind = "raise" THEN <<parsed, entries>>
    ELSE LET new_entry == IF item # None THEN Some(BlendOutlook(parsed.value, item))
                          ELSE parsed.value
         IN IF Stores(new_entry)
            THEN <<Return(None),
                   Append(entries,
                          ConsoleSession_add_entry(cfg, cur_date, new_entry[1], TRUE))>>
            ELSE <<Return(None), entries>>

time_entry_pattern(user_input) == is_float(split(user_input)[1])

outlook_entry_pattern(user_input) ==
    time_entry_pattern(user_input) \/ user_input = EmptyStr

Matches(pattern, user_input) ==
    IF pattern = "outlook_entry_pattern" THEN outlook_entry_pattern(user_input)
    ELSE time_entry_pattern(user_input)

\* sum([entry.duration for entry in console.time_entries])
RECURSIVE SumDurations(_)
SumDurations(entries) ==
    IF entries = <<>> THEN Zero
    ELSE FAdd(entries[1].duration[1], SumDurations(Tail(entries)))

\* mutant: a target of zero is not refused
scale_time_entries_NoZeroCheck(entries, target_total) ==
    IF ~is_float(target_total) THEN <<Raise("InputError"), entries>>
    ELSE LET unscaled_total == SumDurations(entries)
             scale_amount == FSub(float(target_total), unscaled_total)
         IN IF scale_amount = Zero THEN <<Return(None), entries>>
            ELSE IF unscaled_total = Zero THEN <<Return(None), entries>>
            ELSE <<Return(None),
                   [i \in 1..Len(entries) |->
                      [entries[i] EXCEPT !.duration =
                          Some(FAdd(entries[i].duration[1],
                                    FDiv(FMul(scale_amount, entries[i].duration[1]),
                                         unscaled_total)))]]>>

\* mutant: the target itself is taken as the amount to add
scale_time_entries_NoSubtract(entries, target_total) ==
    IF ~is_float(target_total) THEN <<Raise("InputError"), entries>>
    ELSE IF float(target_total) = Zero THEN <<Raise("InputError"), entries>>
    ELSE LET unscaled_total == SumDurations(entries)
             scale_amount == float(target_total)
         IN IF scale_amount = Zero THEN <<Return(None), entries>>
            ELSE IF unscaled_total = Zero THEN <<Return(None), entries>>
            ELSE <<Return(None),
                   [i \in 1..Len(entries) |->
                      [entries[i] EXCEPT !.duration =
                          Some(FAdd(entries[i].duration[1],
                                    FDiv(FMul(scale_amount, entries[i].duration[1]),
                                         unscaled_total)))]]>>

\* mutant: a total of zero is an input error
scale_time_entries_RaisesOnZeroTotal(entries, target_total) ==
    IF ~is_float(target_total) THEN <<Raise("InputError"), entries>>
    ELSE IF float(target_total) = Zero THEN <<Raise("InputError"), entries>>
    ELSE LET unscaled_total == SumDurations(entries)
             scale_amount == FSub(float(target_total), unscaled_total)
         IN IF scale_amount = Zero THEN <<Return(None), entries>>
            ELSE IF unscaled_total = Zero THEN <<Raise("InputError"), entries>>
            ELSE <<Return(None),
                   [i \in 1..Len(entries) |->
                      [entries[i] EXCEPT !.duration =
                          Some(FAdd(entries[i].duration[1],
                                    FDiv(FMul(scale_amount, entries[i].duration[1]),
                                         unscaled_total)))]]>>

\* scale_time_entries: <<the call's outcome, the pending list after it>>
scale_time_entries(entries, target_total) ==
    IF ~is_float(target_total) THEN <<Raise("InputError"), entries>>
    ELSE IF float(target_total) = Zero THEN <<Raise("InputError"), entries>>
    ELSE LET unscaled_total == SumDurations(entries)
             scale_amount == FSub(float(target_total), unscaled_total)
         IN IF scale_amount = Zero THEN <<Return(None), entries>>
            ELSE IF unscaled_total = Zero THEN <<Return(None), entries>>
            ELSE <<Return(None),
                   [i \in 1..Len(entries) |->
                      [entries[i] EXCEPT !.duration =
                          Some(FAdd(entries[i].duration[1],
                                    FDiv(FMul(scale_amount, entries[i].duration[1]),
                                         unscaled_total)))]]>>

\* tokens datetime.date.fromisoformat() accepts, and the day each one names
\* (days are counted from 2000-01-01)
IsoTokens == {"1999-12-31", "2000-01-01", "2000-01-02"}

fromisoformat(tok) ==
    CASE tok = "1999-12-31" -> -1
      [] tok = "2000-01-01" -> 0
      [] tok = "2000-01-02" -> 1

\* mutant: a date after today is accepted
SetIfNotFuture_NoCheck(cur_date, now, new_date) ==
    <<Return(None), new_date>>

\* set_date, the else branch of the second try: the future is refused
SetIfNotFuture(cur_date, now, new_date) ==
    IF new_date > now THEN <<Raise("InputError"), cur_date>>
    ELSE <<Return(None), new_date>>

\* datetime.date.min (0001-01-01), in days from 2000-01-01: date + timedelta
\* raises OverflowError below it
MinDate == -730119

\* mutant: the cursor is assigned before the date is compared with today
set_date_AssignsBeforeCheck(cur_date, now, datestr) ==
    IF datestr = None \/ datestr = Some("") THEN <<Return(None), now>>
    ELSE LET tok == datestr[1] IN
         IF tok \in IntTokens /\ int(tok) > 0 THEN <<Raise("InputError"), cur_date>>
         ELSE IF tok \in IntTokens /\ now + int(tok) < MinDate
              THEN <<Raise("OverflowError"), cur_date>>
         ELSE IF tok \in IntTokens THEN <<Return(None), now + int(tok)>>
         ELSE IF tok \in IsoTokens
              THEN <<IF fromisoformat(tok) > now THEN Raise("InputError") ELSE Return(None),
                     fromisoformat(tok)>>
         ELSE <<Raise("InputError"), cur_date>>

\* set_date: <<the call's outcome, the date cursor after it>>; datestr is
\* None or a token
set_date(cur_date, now, datestr) ==
    IF datestr = None \/ datestr = Some("") THEN <<Return(None), now>>
    ELSE LET tok == datestr[1] IN
         IF tok \in IntTokens /\ int(tok) > 0 THEN <<Raise("InputError"), cur_date>>
         ELSE IF tok \in IntTokens /\ now + int(tok) < MinDate
              THEN <<Raise("OverflowError"), cur_date>>
         ELSE IF tok \in IntTokens THEN SetIfNotFuture(cur_date, now, now + int(tok))
         ELSE IF tok \in IsoTokens THEN SetIfNotFuture(cur_date, now, fromisoformat(tok))
         ELSE <<Raise("InputError"), cur_date>>

\* mutant: the first entry is removed instead of the last
undo_last_DropsFirst(entries) ==
    IF entries = <<>> THEN <<>> ELSE Tail(entries)

\* undo_last: console.time_entries[:-1]
undo_last(entries) ==
    IF entries = <<>> THEN <<>> ELSE SubSeq(entries, 1, Len(entries) - 1)

---------------------------------------------------------------------------
(* The database *)

\* the categories and tasks tables after db_populate_task_category_lists:
\* the row id of each user key (ids start at 0, in the order of the config)
categories_id == (2 :> 0) @@ (3 :> 1) @@ (4 :> 2)
tasks_id == ("i" :> 0) @@ ("d" :> 1)

\* "SELECT id FROM tasks WHERE user_key = (?)": the key is compared as typed
get_task_id(task) ==
    IF task # None /\ task[1] \in DOMAIN tasks_id THEN Some(tasks_id[task[1]]) ELSE None

get_category_id(category) ==
    IF category # None /\ category[1] \in DOMAIN categories_id
    THEN Some(categories_id[category[1]]) ELSE None

RowIds(log) == {log[i].id : i \in 1..Len(log)}

MaxId(log) == IF log = <<>> THEN 0 ELSE CHOOSE m \in RowIds(log) : \A x \in RowIds(log) : x <= m

\* the row db_write_time_log writes for one entry
EntryRow(entry, row_id, session_id) ==
    [id |-> row_id, date |-> entry.date, duration |-> entry.duration,
     category_id |-> get_category_id(entry.category),
     task_id |-> get_task_id(entry.task),
     session_id |-> session_id, comment |-> entry.comment,
     start_ts |-> entry.start_ts, end_ts |-> entry.end_ts]

\* mutant: every entry is inserted as a new row
RECURSIVE db_write_time_log_AlwaysInserts(_, _, _)
db_write_time_log_AlwaysInserts(log, entries, session_id) ==
    IF entries = <<>> THEN log
    ELSE db_write_time_log_AlwaysInserts(
             Append(log, EntryRow(entries[1], MaxId(log) + 1, session_id)),
             Tail(entries), session_id)

\* db_write_time_log: an UPDATE of the row with the entry's time_log_id, an
\* INSERT of a new row otherwise, entry by entry
RECURSIVE db_write_time_log(_, _, _)
db_write_time_log(log, entries, session_id) ==
    IF entries = <<>> THEN log
    ELSE LET entry == entries[1]
             log1 == IF entry.time_log_id # None
                     THEN [i \in 1..Len(log) |->
                             IF log[i].id = entry.time_log_id[1]
                             THEN EntryRow(entry, log[i].id, session_id)
                             ELSE log[i]]
                     ELSE Append(log, EntryRow(entry, MaxId(log) + 1, session_id))
         IN db_write_time_log(log1, Tail(entries), session_id)

---------------------------------------------------------------------------
(* import_from_outlook *)

\* the appointments of a day: Duration in minutes, Categories one label
Appointments ==
    {[Subject |-> <<"standup">>, Duration |-> 90, Categories |-> "Deep Work",
      BusyStatus |-> 2, AllDayEvent |-> FALSE],
     [Subject |-> <<"offsite">>, Duration |-> 600, Categories |-> "Meetings",
      BusyStatus |-> 2, AllDayEvent |-> FALSE],
     [Subject |-> <<"ping">>, Duration |-> 0, Categories |-> "",
      BusyStatus |-> 1, AllDayEvent |-> FALSE],
     [Subject |-> <<"holiday">>, Duration |-> 1440, Categories |-> "",
      BusyStatus |-> 2, AllDayEvent |-> TRUE]}

ItemLists == UNION {[1..n -> Appointments] : n \in 0..MaxItems}

\* the "continue" of the loop over outlook_items
Skipped(cfg, item) ==
    \/ item.AllDayEvent /\ cfg.skip_all_day_events
    \/ item.Subject \in cfg.skip_event_names
    \/ item.BusyStatus \in cfg.skip_event_status

RECURSIVE DropSkipped(_, _)
DropSkipped(cfg, items) ==
    IF items # <<>> /\ Skipped(cfg, items[1]) THEN DropSkipped(cfg, Tail(items))
    ELSE items

\* the category key whose name is the appointment's label, else the default
AppointmentCategory(cfg, item) ==
    IF \E key \in DOMAIN cfg.category_list : cfg.category_list[key] = item.Categories
    THEN CHOOSE key \in DOMAIN cfg.category_list : cfg.category_list[key] = item.Categories
    ELSE cfg.default_category

\* console.outlook_item = (duration, category, comment)
OutlookItem(cfg, item) ==
    <<Num(item.Duration, 60), AppointmentCategory(cfg, item), item.Subject>>

AllEnabled == [c \in {"date", "write", "quit"} |-> TRUE]
AllDisabled == [c \in {"date", "write", "quit"} |-> FALSE]

\* outlook_queue holds, for every import_from_outlook that is running, the
\* items its loop has still to visit: the loop whose get_input is prompting
\* comes first, the imports it was started from follow

\* import_from_outlook from the pattern change to the first prompt: the
\* pattern is set and the commands are disabled once, before the loop; the
\* first item that is not skipped is offered, or the loop ends at once and
\* the commands are enabled again
ImportNext(items) ==
    LET left == DropSkipped(config, items) IN
    IF left = <<>>
    THEN /\ outlook_item' = outlook_item
         /\ outlook_queue' = outlook_queue
         /\ match_pattern' = "time_entry_pattern"
         /\ enabled' = AllEnabled
         /\ pc' = IF pc = "main" THEN "console" ELSE pc
    ELSE /\ outlook_item' = OutlookItem(config, left[1])
         /\ outlook_queue' = <<Tail(left)>> \o outlook_queue
         /\ match_pattern' = "outlook_entry_pattern"
         /\ enabled' = AllDisabled
         /\ pc' = "import"

\* the end of import_from_outlook: the pattern is set back, the commands
\* are enabled, and the loop that called it prompts again (the console, or
\* the import the outlook command was typed in)
ImportBreak ==
    /\ outlook_item' = None
    /\ outlook_queue' = Tail(outlook_queue)
    /\ match_pattern' = "time_entry_pattern"
    /\ enabled' = AllEnabled
    /\ pc' = IF Tail(outlook_queue) = <<>> THEN "console" ELSE "import"

\* get_input has returned a break command other than quit: the loop goes on
\* with the next item that is not skipped, or the import ends
ImportStep ==
    LET left == DropSkipped(config, outlook_queue[1]) IN
    IF left = <<>> THEN ImportBreak
    ELSE /\ outlook_item' = OutlookItem(config, left[1])
         /\ outlook_queue' = <<Tail(left)>> \o Tail(outlook_queue)
         /\ pc' = "import"
         /\ UNCHANGED <<match_pattern, enabled>>

---------------------------------------------------------------------------
(* get_input: the console loop *)

\* exceptions get_input names in its except clause
get_input_excepts == {"KeyError", "ValueError", "TypeError"}

\* exceptions the console loop survives: those, and InputError
Caught(err) == err \in get_input_excepts \cup {"InputError"}

InLoop == pc \in {"console", "import"}

\* one more line is read at the prompt
Command ==
    /\ InLoop
    /\ n_commands < MaxCommands
    /\ n_commands' = n_commands + 1

\* mutant: every exception of a handler ends the loop
Reprompt_EndsOnRaise(result) ==
    /\ pc' = IF result.kind = "raise" THEN "exited" ELSE pc
    /\ UNCHANGED <<outlook_item, outlook_queue, match_pattern, enabled>>

\* after a handler that is not a break command of the import loop: the loop
\* prompts again, unless the handler raised what get_input does not catch
Reprompt(result) ==
    /\ pc' = IF result.kind = "raise" /\ ~Caught(result.err) THEN "exited" ELSE pc
    /\ UNCHANGED <<outlook_item, outlook_queue, match_pattern, enabled>>

NoOp == [op |-> "none", input |-> EmptyStr, ctx |-> None,
         parsed |-> Return(None), result |-> Return(None)]

InitSession ==
    /\ time_entries = <<>>
    /\ today = 0
    /\ date = 0
    /\ outlook_item = None
    /\ outlook_queue = <<>>
    /\ match_pattern = "time_entry_pattern"
    /\ enabled = [c \in {"date", "write", "quit"} |-> TRUE]
    /\ time_log = <<>>
    /\ sessions = <<>>
    /\ n_commands = 0
    /\ last = NoOp


Op(name, input, parsed, result) ==
    [op |-> name, input |-> input, ctx |-> outlook_item,
     parsed |-> parsed, result |-> result]

\* a line the add_entry pattern matches
AddEntry(lines) ==
    /\ Command
    /\ \E user_input \in lines :
         /\ Matches(match_pattern, user_input)
         /\ LET out == add_entry(config, time_entries, date, outlook_item, user_input) IN
            /\ time_entries' = out[2]
            /\ last' = Op("add_entry", user_input,
                          _parse_time_entry(config, user_input), out[1])
            /\ IF pc = "import" /\ out[1].kind = "return"
               THEN ImportStep
               ELSE Reprompt(out[1])
    /\ UNCHANGED <<date, today, time_log, sessions>>

\* the clear command
ClearEntries ==
    /\ Command
    /\ time_entries' = <<>>
    /\ last' = Op("clear", EmptyStr, Return(None), Return(None))
    /\ Reprompt(Return(None))
    /\ UNCHANGED <<date, today, time_log, sessions>>

\* the undo command
UndoLast ==
    /\ Command
    /\ time_entries' = undo_last(time_entries)
    /\ last' = Op("undo", EmptyStr, Return(None), Return(None))
    /\ Reprompt(Return(None))
    /\ UNCHANGED <<date, today, time_log, sessions>>

\* the scale command with one argument
ScaleTimeEntries(targets) ==
    /\ Command
    /\ \E target_total \in targets :
         LET out == scale_time_entries(time_entries, target_total) IN
         /\ time_entries' = out[2]
         /\ last' = Op("scale", <<target_total>>, Return(None), out[1])
         /\ Reprompt(out[1])
    /\ UNCHANGED <<date, today, time_log, sessions>>

\* the date command, with an argument or without; a disabled command prints
\* "Disabled." and does nothing
SetDate(tokens) ==
    /\ Command
    /\ \E datestr \in {None} \cup {Some(t) : t \in tokens} :
         LET out == IF enabled["date"] THEN set_date(date, today, datestr)
                    ELSE <<Return(None), date>> IN
         /\ date' = out[2]
         /\ last' = Op("date", datestr, Return(None), out[1])
         /\ Reprompt(out[1])
    /\ UNCHANGED <<time_entries, today, time_log, sessions>>

\* write_db: <<outcome, pending list, time_log, sessions>> after it
write_db(entries, log, sess, input_type) ==
    IF Len(entries) = 0 THEN <<Raise("InputError"), entries, log, sess>>
    ELSE <<Return(None), <<>>,
           db_write_time_log(log, entries, Len(sess) + 1),
           Append(sess, input_type)>>

\* the write command
WriteDb ==
    /\ Command
    /\ LET out == IF enabled["write"] THEN write_db(time_entries, time_log, sessions, "user")
                  ELSE <<Return(None), time_entries, time_log, sessions>> IN
       /\ time_entries' = out[2]
       /\ time_log' = out[3]
       /\ sessions' = out[4]
       /\ last' = Op("write", EmptyStr, Return(None), out[1])
       /\ Reprompt(out[1])
    /\ UNCHANGED <<date, today>>

\* the quit command: exit(0) in the console; disabled during the import,
\* where it still ends the loop over the appointments
Quit ==
    /\ Command
    /\ last' = Op("quit", EmptyStr, Return(None), Return(None))
    /\ IF enabled["quit"]
       THEN /\ pc' = "exited"
            /\ UNCHANGED <<outlook_item, outlook_queue, match_pattern, enabled>>
       ELSE IF pc = "import" THEN ImportBreak
       ELSE /\ pc' = pc
            /\ UNCHANGED <<outlook_item, outlook_queue, match_pattern, enabled>>
    /\ UNCHANGED <<time_entries, date, today, time_log, sessions>>

\* the outlook command (or titr --outlook): no appointment raises InputError,
\* which main catches for --outlook and the console loop for the command
ImportFromOutlook ==
    /\ pc \in {"main", "console"}
    /\ IF pc = "main" THEN UNCHANGED n_commands ELSE Command
    /\ \E outlook_items \in ItemLists :
         IF Len(outlook_items) = 0
         THEN /\ last' = Op("outlook", EmptyStr, Return(None), Raise("InputError"))
              /\ pc' = IF pc = "main" THEN "console"
                       ELSE IF Caught("InputError") THEN pc ELSE "exited"
              /\ UNCHANGED <<outlook_item, outlook_queue, match_pattern, enabled>>
         ELSE /\ last' = Op("outlook", EmptyStr, Return(None), Return(None))
              /\ ImportNext(outlook_items)
    /\ UNCHANGED <<time_entries, date, today, time_log, sessions>>

\* the outlook command typed at a prompt of the import: it is not among the
\* disabled commands, and import_from_outlook runs inside the running import
NestedImport ==
    /\ pc = "import"
    /\ Command
    /\ \E outlook_items \in ItemLists :
         IF Len(outlook_items) = 0
         THEN /\ last' = Op("outlook", EmptyStr, Return(None), Raise("InputError"))
              /\ Reprompt(Raise("InputError"))
         ELSE /\ last' = Op("outlook", EmptyStr, Return(None), Return(None))
              /\ ImportNext(outlook_items)
    /\ UNCHANGED <<time_entries, date, today, time_log, sessions>>

\* main without --start, --end or --outlook: the console loop starts
MainConsole ==
    /\ pc = "main"
    /\ pc' = "console"
    /\ UNCHANGED <<time_entries, date, today, outlook_item, outlook_queue,
                   match_pattern, enabled, time_log, sessions, n_commands, last>>

---------------------------------------------------------------------------
(* titr --start and titr --end *)

\* the timestamps datetime.datetime.today() gives in the two runs
StartTs == "started"
EndTs == "ended"

\* (end_ts - start_ts).total_seconds() / 3600: the hours between the runs
ElapsedHours_WithZero == {Zero, Num(1, 2), Num(10, 1)}

ElapsedHours == {Num(1, 2), Num(10, 1)}

\* "0 " + " ".join(user_args)
TimedInput(user_args) == <<"0", SP>> \o join(user_args)

\* _start_timed_activity up to cs.add_entry: the entry appended, or the
\* exception that ends the run
start_entry(cfg, cur_date, user_args) ==
    LET timed_entry == _parse_time_entry(cfg, TimedInput(user_args)) IN
    IF timed_entry.kind = "raise" THEN timed_entry
    ELSE IF timed_entry.value = None THEN Raise("Exception")
    ELSE Return(ConsoleSession_add_entry(cfg, cur_date,
                    [timed_entry.value[1] EXCEPT !.start_ts = Some(StartTs)], FALSE))

\* query_last_zero_entry: the rows of an activity in progress
ActiveRows(log, sess) ==
    {i \in 1..Len(log) : /\ log[i].duration = Some(Zero)
                         /\ log[i].end_ts = None
                         /\ sess[log[i].session_id] = "command"}

\* ORDER BY l.id DESC limit 1
LastActive(log, sess) ==
    CHOOSE i \in ActiveRows(log, sess) :
        \A j \in ActiveRows(log, sess) : log[j].id <= log[i].id

\* query_task, query_category: the user key of the row's task and category
task_key(row) ==
    IF row.task_id = None THEN None
    ELSE Some(CHOOSE key \in DOMAIN tasks_id : tasks_id[key] = row.task_id[1])

category_key(row) ==
    IF row.category_id = None THEN None
    ELSE Some(CHOOSE key \in DOMAIN categories_id : categories_id[key] = row.category_id[1])

\* _prioritize: the final entry, then the initial entry, then the default
_prioritize(initial_entry, final_entry, default) ==
    IF final_entry # None THEN final_entry
    ELSE IF initial_entry = None THEN Some(default)
    ELSE initial_entry

\* _end_timed_activity up to cs.add_entry, for the row of the activity in
\* progress: the entry appended, or the exception that ends the run
\* (a comment of None is the empty string here)
end_entry(cfg, now, row, user_args, elapsed) ==
    LET final_entry == _parse_time_entry(cfg, TimedInput(user_args)) IN
    IF final_entry.kind = "raise" THEN final_entry
    ELSE IF final_entry.value = None THEN Raise("Exception")
    ELSE LET f == final_entry.value[1] IN
         Return(ConsoleSession_add_entry(cfg, now,
             [f EXCEPT
                !.time_log_id = Some(row.id),
                !.date = Some(now),
                !.start_ts = row.start_ts,
                !.end_ts = Some(EndTs),
                !.duration = Some(elapsed),
                !.comment = IF f.comment # EmptyStr \/ row.comment # EmptyStr
                            THEN row.comment \o <<SP>> \o f.comment ELSE EmptyStr,
                !.category = _prioritize(category_key(row), f.category,
                                         cfg.default_category),
                !.task = _prioritize(task_key(row), f.task, cfg.default_task)],
             TRUE))

\* the arguments given to --start and --end
TimedArgs == {<<>>, <<"2", "i", "x">>, <<"2.5">>}

\* titr --start: the zero-duration entry is appended to the pending list
StartTimedActivity ==
    /\ pc = "main"
    /\ \E user_args \in TimedArgs :
         LET out == start_entry(config, date, user_args) IN
         /\ last' = Op("start", TimedInput(user_args),
                       _parse_time_entry(config, TimedInput(user_args)),
                       IF out.kind = "raise" THEN out ELSE Return(None))
         /\ IF out.kind = "raise"
            THEN /\ pc' = "exited"
                 /\ UNCHANGED time_entries
            ELSE /\ pc' = "start_added"
                 /\ time_entries' = Append(time_entries, out.value)
    /\ UNCHANGED <<date, today, outlook_item, outlook_queue, match_pattern,
                   enabled, time_log, sessions, n_commands>>

\* titr --start, second half: write_db(cs, input_type="command"), exit(0)
StartWrite ==
    /\ pc = "start_added"
    /\ LET out == write_db(time_entries, time_log, sessions, "command") IN
       /\ time_entries' = out[2]
       /\ time_log' = out[3]
       /\ sessions' = out[4]
       /\ last' = Op("start_write", EmptyStr, Return(None), out[1])
    /\ pc' = "exited"
    /\ UNCHANGED <<date, today, outlook_item, outlook_queue, match_pattern,
                   enabled, n_commands>>

\* titr --end: no activity in progress exits; otherwise the finished entry is
\* appended to the pending list
EndTimedActivity ==
    /\ pc = "main"
    /\ IF ActiveRows(time_log, sessions) = {}
       THEN /\ last' = Op("end", EmptyStr, Return(None), Return(None))
            /\ pc' = "exited"
            /\ UNCHANGED time_entries
       ELSE \E user_args \in TimedArgs, elapsed \in ElapsedHours :
              LET row == time_log[LastActive(time_log, sessions)]
                  out == end_entry(config, today, row, user_args, elapsed) IN
              /\ last' = Op("end", TimedInput(user_args),
                            _parse_time_entry(config, TimedInput(user_args)),
                            IF out.kind = "raise" THEN out ELSE Return(None))
              /\ IF out.kind = "raise"
                 THEN /\ pc' = "exited"
                      /\ UNCHANGED time_entries
                 ELSE /\ pc' = "end_added"
                      /\ time_entries' = Append(time_entries, out.value)
    /\ UNCHANGED <<date, today, outlook_item, outlook_queue, match_pattern,
                   enabled, time_log, sessions, n_commands>>

\* titr --end, the confirmation: "y" writes, "delete" removes the row of the
\* activity, anything else leaves the database alone; then exit(0)
EndConfirm ==
    /\ pc = "end_added"
    /\ \E confirm \in {"y", "delete", "n"} :
         /\ last' = Op("end_confirm", <<confirm>>, Return(None), Return(None))
         /\ CASE confirm = "y" ->
                   LET out == write_db(time_entries, time_log, sessions, "command") IN
                   /\ time_entries' = out[2]
                   /\ time_log' = out[3]
                   /\ sessions' = out[4]
              [] confirm = "delete" ->
                   /\ time_log' = SelectSeq(time_log,
                          LAMBDA row : Some(row.id) #
                              time_entries[Len(time_entries)].time_log_id)
                   /\ UNCHANGED <<time_entries, sessions>>
              [] OTHER -> UNCHANGED <<time_entries, time_log, sessions>>
    /\ pc' = "exited"
    /\ UNCHANGED <<date, today, outlook_item, outlook_queue, match_pattern,
                   enabled, n_commands>>

---------------------------------------------------------------------------
(* The session: one run of titr on a database earlier runs have left *)

\* lines typed at the prompt
SessionLines ==
    {EmptyStr, <<"0">>, <<"1">>, <<"10">>, <<"1", SP, "2.5">>,
     <<".5", SP, "i", SP, "x">>}

\* arguments of the scale and date commands
ScaleTargets == {"0", "2", "1e-20", "x"}
DateTokens == {"-1", "1", "1999-12-31", "x"}

\* the database before the run: empty, or left by one titr --start
Databases ==
    {<<<<>>, <<>>>>} \cup
    {<<db_write_time_log(<<>>, <<start_entry(config, 0, a).value>>, 1), <<"command">>>> :
        a \in {a \in TimedArgs : start_entry(config, 0, a).kind = "return"}}

Init ==
    /\ pc = "main"
    /\ time_entries = <<>>
    /\ today = 0
    /\ date = 0
    /\ outlook_item = None
    /\ outlook_queue = <<>>
    /\ match_pattern = "time_entry_pattern"
    /\ enabled = AllEnabled
    /\ \E db \in Databases : time_log = db[1] /\ sessions = db[2]
    /\ n_commands = 0
    /\ last = NoOp

Next ==
    \/ MainConsole
    \/ AddEntry(SessionLines)
    \/ ClearEntries
    \/ UndoLast
    \/ ScaleTimeEntries(ScaleTargets)
    \/ SetDate(DateTokens)
    \/ WriteDb
    \/ Quit
    \/ ImportFromOutlook
    \/ StartTimedActivity
    \/ StartWrite
    \/ EndTimedActivity
    \/ EndConfirm

Spec == Init /\ [][Next]_vars

---------------------------------------------------------------------------
(* The add_entry handler alone: called as the tests call it, on a session *)
(* with or without an import context                                      *)

\* the import contexts import_from_outlook can set
HandlerContexts ==
    {None} \cup {OutlookItem(config, a) : a \in {b \in Appointments : ~Skipped(config, b)}}

HandlerLines ==
    {EmptyStr, <<"0">>, <<"0", SP, "2", SP, "i", SP, "x">>, <<"1">>,
     <<".5", SP, "i", SP, "x">>, <<"1", SP, "3", SP, "I", SP, "y">>,
     <<"10">>, <<"1", SP, "2.5">>}

InitHandler ==
    /\ pc = "handler"
    /\ time_entries = <<>>
    /\ today = 0
    /\ date = 0
    /\ outlook_item \in HandlerContexts
    /\ outlook_queue = <<>>
    /\ match_pattern = "time_entry_pattern"
    /\ enabled = AllEnabled
    /\ time_log = <<>>
    /\ sessions = <<>>
    /\ n_commands = 0
    /\ last = NoOp

\* add_entry(console, user_input)
CallAddEntry(lines) ==
    /\ pc = "handler"
    /\ n_commands < MaxCommands
    /\ n_commands' = n_commands + 1
    /\ \E user_input \in lines :
         LET out == add_entry(config, time_entries, date, outlook_item, user_input) IN
         /\ time_entries' = out[2]
         /\ last' = Op("add_entry", user_input,
                       _parse_time_entry(config, user_input), out[1])
    /\ UNCHANGED <<pc, date, today, outlook_item, outlook_queue, match_pattern,
                   enabled, time_log, sessions>>

NextHandler == CallAddEntry(HandlerLines)

SpecHandler == InitHandler /\ [][NextHandler]_vars

---------------------------------------------------------------------------
(* ConsoleSession.add_entry alone: called on entries with and without a   *)
(* category, a task and a date                                            *)

AcceptEntries ==
    {[TimeEntry(Some(Num(1, 1))) EXCEPT !.category = c, !.task = t, !.date = d] :
        c \in {None, Some(3)}, t \in {None, Some("I")}, d \in {None, Some(-2)}}

InitAccept ==
    /\ pc = "accept"
    /\ time_entries = <<>>
    /\ today = 0
    /\ date \in {-1, 0}
    /\ outlook_item = None
    /\ outlook_queue = <<>>
    /\ match_pattern = "time_entry_pattern"
    /\ enabled = AllEnabled
    /\ time_log = <<>>
    /\ sessions = <<>>
    /\ n_commands = 0
    /\ last = NoOp

\* cs.add_entry(entry, set_defaults): the entry is appended and returned
CallSessionAddEntry(entries) ==
    /\ pc = "accept"
    /\ n_commands < MaxCommands
    /\ n_commands' = n_commands + 1
    /\ \E entry \in entries, set_defaults \in BOOLEAN :
         LET stored == ConsoleSession_add_entry(config, date, entry, set_defaults) IN
         /\ time_entries' = Append(time_entries, stored)
         /\ last' = Op("ConsoleSession.add_entry", <<entry, set_defaults>>,
                       Return(None), Return(stored))
    /\ UNCHANGED <<pc, date, today, outlook_item, outlook_queue, match_pattern,
                   enabled, time_log, sessions>>

NextAccept == CallSessionAddEntry(AcceptEntries)

SpecAccept == InitAccept /\ [][NextAccept]_vars

---------------------------------------------------------------------------
(* The pending list alone: the console loop with the commands that change *)
(* it (entries, undo, clear, scale), on more scale targets than Spec has  *)

ListLines == {<<"1">>, <<"3">>, <<".5", SP, "i", SP, "x">>}

\* arguments of scale: inf is left out, the model has no arithmetic on it
ListTargets == {"0", "x", "2", "3", "-1", "1e-20", "nan"}

InitList ==
    /\ pc = "console"
    /\ time_entries = <<>>
    /\ today = 0
    /\ date = 0
    /\ outlook_item = None
    /\ outlook_queue = <<>>
    /\ match_pattern = "time_entry_pattern"
    /\ enabled = AllEnabled
    /\ time_log = <<>>
    /\ sessions = <<>>
    /\ n_commands = 0
    /\ last = NoOp

NextList ==
    \/ AddEntry(ListLines)
    \/ UndoLast
    \/ ClearEntries
    \/ ScaleTimeEntries(ListTargets)

SpecList == InitList /\ [][NextList]_vars

---------------------------------------------------------------------------
(* The date cursor alone: the console loop with the date command on every *)
(* shape of token, the commands of the pending list, and days that pass   *)

DateLines == {<<"1">>}

DateScaleTargets == {"2"}

\* arguments of date, besides none: empty, offsets, ISO dates, a word
DateArgs == {"", "0", "-1", "1", "1999-12-31", "2000-01-02", "x", "-800000"}

\* midnight passes while the console waits at its prompt
Tick ==
    /\ InLoop
    /\ today < MaxDays
    /\ today' = today + 1
    /\ last' = Op("tick", EmptyStr, Return(None), Return(None))
    /\ UNCHANGED <<pc, time_entries, date, outlook_item, outlook_queue,
                   match_pattern, enabled, time_log, sessions, n_commands>>

NextDate ==
    \/ SetDate(DateArgs)
    \/ AddEntry(DateLines)
    \/ UndoLast
    \/ ClearEntries
    \/ ScaleTimeEntries(DateScaleTargets)
    \/ WriteDb
    \/ Tick

SpecDate == InitList /\ [][NextDate]_vars

---------------------------------------------------------------------------
(* The clock and the session: the module is loaded, the session is built  *)
(* from the defaults of its class, and midnights pass in between. Before  *)
(* the session exists, date is the class attribute ConsoleSession.date    *)

\* after the import of titr_main: the class body has run, its default for
\* date is datetime.date.today() of that moment
InitClock ==
    /\ pc = "loaded"
    /\ time_entries = <<>>
    /\ today = 0
    /\ date = 0
    /\ outlook_item = None
    /\ outlook_queue = <<>>
    /\ match_pattern = "time_entry_pattern"
    /\ enabled = AllEnabled
    /\ time_log = <<>>
    /\ sessions = <<>>
    /\ n_commands = 0
    /\ last = NoOp

\* midnight passes between the import and main's ConsoleSession()
Midnight ==
    /\ pc = "loaded"
    /\ today < MaxDays
    /\ today' = today + 1
    /\ last' = Op("midnight", EmptyStr, Return(None), Return(None))
    /\ UNCHANGED <<pc, time_entries, date, outlook_item, outlook_queue,
                   match_pattern, enabled, time_log, sessions, n_commands>>

\* ConsoleSession(): the generated __init__ takes date from the default of
\* the class; then get_input prompts
Construct ==
    /\ pc = "loaded"
    /\ pc' = "console"
    /\ date' = date
    /\ time_entries' = <<>>
    /\ outlook_item' = None
    /\ last' = Op("ConsoleSession", EmptyStr, Return(None), Return(None))
    /\ UNCHANGED <<today, outlook_queue, match_pattern, enabled, time_log,
                   sessions, n_commands>>

NextClock ==
    \/ Midnight
    \/ Construct
    \/ NextDate

SpecClock == InitClock /\ [][NextClock]_vars

---------------------------------------------------------------------------
(* The commit alone: a run of titr on a database earlier runs have left,  *)
(* with the commands that fill the pending list and the three callers of  *)
(* write_db (the write command, --start, --end)                           *)

CommitLines ==
    {<<"1">>, <<".5", SP, "i", SP, "x">>, <<"1", SP, "3", SP, "I", SP, "y">>}

NextCommit ==
    \/ MainConsole
    \/ AddEntry(CommitLines)
    \/ UndoLast
    \/ WriteDb
    \/ StartTimedActivity
    \/ StartWrite
    \/ EndTimedActivity
    \/ EndConfirm

SpecCommit == Init /\ [][NextCommit]_vars

---------------------------------------------------------------------------
(* The console loop on input its handlers refuse: lines out of range,     *)
(* scale and date arguments that are no number or no date, an empty write *)

ErrorLines == {<<"1">>, <<"10">>, <<"-1">>, <<"nan">>}

ErrorTargets == {"0", "x", "2"}

ErrorDates == {"1", "x", "-1", "2000-01-02"}

NextErrors ==
    \/ AddEntry(ErrorLines)
    \/ ScaleTimeEntries(ErrorTargets)
    \/ SetDate(ErrorDates)
    \/ WriteDb
    \/ UndoLast

SpecErrors == InitList /\ [][NextErrors]_vars

---------------------------------------------------------------------------
(* The dispatch of get_input: one raw line is read, matched against the   *)
(* add_entry pattern, else looked up by its first token among the aliases *)
(* of the commands, and the handler found is called                       *)

\* _cmd_dict(): the command of every alias (of the commands modelled here)
cmd_dict ==
    [alias \in {"", "clear", "scale", "s", "date", "d", "undo", "u", "z",
                "write", "c", "commit", "quit", "q", "preview", "p",
                "outlook", "o"} |->
       CASE alias = "" -> "null_cmd"
         [] alias \in {"scale", "s"} -> "scale"
         [] alias \in {"date", "d"} -> "date"
         [] alias \in {"undo", "u", "z"} -> "undo"
         [] alias \in {"write", "c", "commit"} -> "write"
         [] alias \in {"quit", "q"} -> "quit"
         [] alias \in {"preview", "p"} -> "preview"
         [] alias \in {"outlook", "o"} -> "outlook"
         [] OTHER -> alias]

\* mutant: the pattern is not tried, every line is looked up as a command
Dispatch_NoPattern(pattern, user_input) ==
    IF split(user_input)[1] \in DOMAIN cmd_dict
    THEN cmd_dict[split(user_input)[1]]
    ELSE "none"

\* get_input up to the call: the name of exec_cmd, "none" when the line is
\* not recognized
Dispatch(pattern, user_input) ==
    IF Matches(pattern, user_input) THEN "add_entry"
    ELSE IF split(user_input)[1] \in DOMAIN cmd_dict
         THEN cmd_dict[split(user_input)[1]]
         ELSE "none"

\* the built-in null command (a line whose first token is empty): nothing
\* is done; it is a break command of the import loop
NullCmd ==
    /\ Command
    /\ last' = Op("null_cmd", EmptyStr, Return(None), Return(None))
    /\ IF pc = "import" THEN ImportStep ELSE Reprompt(Return(None))
    /\ UNCHANGED <<time_entries, date, today, time_log, sessions>>

\* the preview command: the pending entries are printed
Preview ==
    /\ Command
    /\ last' = Op("preview", EmptyStr, Return(None), Return(None))
    /\ Reprompt(Return(None))
    /\ UNCHANGED <<time_entries, date, today, time_log, sessions>>

\* "Command not recognized. Type 'h' for help or 'q' to quit."
NotRecognized(user_input) ==
    /\ Command
    /\ last' = Op("none", user_input, Return(None), Return(None))
    /\ Reprompt(Return(None))
    /\ UNCHANGED <<time_entries, date, today, time_log, sessions>>

\* one pass of the loop of get_input on the line user_input
ReadLine(user_input) ==
    LET name == Dispatch(match_pattern, user_input)
        args == Tail(split(user_input))
    IN CASE name = "add_entry" -> AddEntry({user_input})
         [] name = "null_cmd" -> NullCmd
         [] name = "clear" -> ClearEntries
         [] name = "undo" -> UndoLast
         [] name = "scale" -> ScaleTimeEntries({args[1]})
         [] name = "date" ->
               /\ SetDate({args[i] : i \in 1..Len(args)})
               /\ last'.input = IF args = <<>> THEN None ELSE Some(args[1])
         [] name = "write" -> WriteDb
         [] name = "quit" -> Quit
         [] name = "preview" -> Preview
         [] name = "outlook" -> IF pc = "import" THEN NestedImport ELSE ImportFromOutlook
         [] OTHER -> NotRecognized(user_input)

\* lines typed at the prompt: entries, commands by name and by alias, the
\* blank line, a line that starts with a space, unknown words
DispatchLines ==
    {<<"1">>, EmptyStr, <<SP, "1">>, <<"clear">>, <<"u">>, <<"s", SP, "2">>,
     <<"date">>, <<"d", SP, "-1">>, <<"c">>, <<"q">>, <<"p">>,
     <<"bogus", SP, "1">>}

GetInput == \E user_input \in DispatchLines : ReadLine(user_input)

NextDispatch ==
    \/ MainConsole
    \/ ImportFromOutlook
    \/ GetInput

\* main on an empty database
InitDispatch == pc = "main" /\ InitSession

SpecDispatch == InitDispatch /\ [][NextDispatch]_vars

---------------------------------------------------------------------------
(* The import alone: titr --outlook or the outlook command, and the lines *)
(* typed at the prompts of the import and of the console                  *)

ImportLines ==
    {EmptyStr, <<"1">>, <<"q">>, <<"d", SP, "-1">>, <<"c">>, <<"o">>}

ImportInput == \E user_input \in ImportLines : ReadLine(user_input)

NextImport ==
    \/ MainConsole
    \/ ImportFromOutlook
    \/ ImportInput

SpecImport == InitDispatch /\ [][NextImport]_vars

---------------------------------------------------------------------------
(* The tasks and categories tables: db_populate_user_table alone, called  *)
(* again and again on one table. A table is a function from the ids of    *)
(* its rows to [user_key, name]                                           *)

EmptyTable == [i \in {} |-> [user_key |-> None, name |-> ""]]

MinOf(S) == CHOOSE m \in S : \A x \in S : m <= x
MaxOf(S) == CHOOSE m \in S : \A x \in S : x <= m

\* "SELECT id FROM <table> WHERE name=(?)", fetchone()
select_by_name(table, value) ==
    LET found == {i \in DOMAIN table : table[i].name = value} IN
    IF found = {} THEN None ELSE Some(MinOf(found))

\* "SELECT id FROM <table> WHERE user_key = (?)", _fetch_first
select_by_user_key(table, user_key) ==
    LET found == {i \in DOMAIN table : table[i].user_key = Some(user_key)} IN
    IF found = {} THEN None ELSE Some(MinOf(found))

\* REPLACE INTO: the row with this id, if any, is deleted and the new row
\* is inserted; a column the statement does not name is NULL
replace_into(table, id, user_key, name) ==
    [i \in DOMAIN table \cup {id} |->
       IF i = id THEN [user_key |-> user_key, name |-> name] ELSE table[i]]

\* db_populate_user_table: <<the primary key returned, the table after it>>
db_populate_user_table(table, value, user_key) ==
    LET primary_key_query == select_by_name(table, value)
        primary_key == IF primary_key_query = None
                       THEN IF DOMAIN table = {} THEN 0 ELSE MaxOf(DOMAIN table) + 1
                       ELSE primary_key_query[1]
    IN IF user_key # None
       THEN LET written == replace_into(table, primary_key, user_key, value) IN
            <<primary_key,
              [i \in DOMAIN written |->
                 IF i # primary_key /\ written[i].user_key = user_key
                 THEN [written[i] EXCEPT !.user_key = None]
                 ELSE written[i]]>>
       ELSE <<primary_key, replace_into(table, primary_key, None, value)>>

\* the names and user keys the function is called with
TableNames == {"Incidental", "Default Task", "Travel"}

TableKeys == {"i", "d"}

\* the tasks table of a new database, and the one
\* db_populate_task_category_lists has filled from the configuration
InitialTables ==
    {EmptyTable,
     db_populate_user_table(
         db_populate_user_table(EmptyTable, config_task_list["i"], Some("i"))[2],
         config_task_list["d"], Some("d"))[2]}

InitTables == pc = "tables" /\ InitSession

\* the table the next call finds: the one the last call has left
TableNow(first) ==
    IF last.op = "db_populate_user_table" THEN last.result.value[2] ELSE first

CallPopulate ==
    /\ pc = "tables"
    /\ n_commands < MaxCommands
    /\ n_commands' = n_commands + 1
    /\ \E first \in InitialTables, value \in TableNames,
          user_key \in {None} \cup {Some(k) : k \in TableKeys} :
         last' = Op("db_populate_user_table",
                    <<TableNow(first), value, user_key>>, Return(None),
                    Return(db_populate_user_table(TableNow(first), value, user_key)))
    /\ UNCHANGED <<pc, time_entries, date, today, outlook_item, outlook_queue,
                   match_pattern, enabled, time_log, sessions>>

NextTables == CallPopulate

SpecTables == InitTables /\ [][NextTables]_vars

---------------------------------------------------------------------------
(* The database deconflicter: find_conflicts and resolve_conflicts on a   *)
(* master and a conflict database. A database is a record of its four     *)
(* tables, each a function from the ids of its rows to the other columns; *)
(* a reference column of time_log holds None for NULL or Some(id)         *)

\* the tables sqlite_master lists that have a primary key
DbTables == {"time_log", "categories", "tasks", "sessions"}

\* zip(("category_id", "task_id", "session_id"), ("categories", "tasks", "sessions"))
Columns == <<"category_id", "task_id", "session_id">>
RefTables == <<"categories", "tasks", "sessions">>

\* range(max_id2, max_id2 - 500, -1)
ScanWindow == 500

RECURSIVE SortedDescending(_)
SortedDescending(S) ==
    IF S = {} THEN <<>>
    ELSE <<MaxOf(S)>> \o SortedDescending(S \ {MaxOf(S)})

\* "SELECT * FROM <table> WHERE id = ?", fetchone()
fetchone(table, id) == IF id \in DOMAIN table THEN Some(table[id]) ELSE None

\* the loop body of find_conflicts for one table: the list of row ids
find_conflicts_in(master_table, conflict_table) ==
    IF DOMAIN conflict_table = {} THEN <<>>
    ELSE LET max_id2 == MaxOf(DOMAIN conflict_table) IN
         SortedDescending(
             {row_id \in (max_id2 - ScanWindow + 1)..max_id2 :
                fetchone(master_table, row_id) # fetchone(conflict_table, row_id)})

\* the dictionary returned, an absent key being the empty list
find_conflicts(master_db, conflict_db) ==
    [t \in DbTables |-> find_conflicts_in(master_db[t], conflict_db[t])]

InList(x, list) == \E i \in DOMAIN list : list[i] = x

Remove(list, x) == SelectSeq(list, LAMBDA y : y # x)

\* update_table_for_conflict: conflict_row[1:] raises TypeError when the
\* conflict database has no row of that key; otherwise the row is inserted
\* in the master database under the next id and deleted from the conflict
\* database
update_table_for_conflict(master_db, conflict_db, table_name, conflict_key) ==
    IF conflict_key \notin DOMAIN conflict_db[table_name]
    THEN [raised |-> TRUE, new_key |-> None,
          master |-> master_db, conflict |-> conflict_db]
    ELSE LET new_key == IF DOMAIN master_db[table_name] = {} THEN 1
                        ELSE MaxOf(DOMAIN master_db[table_name]) + 1
             kept == DOMAIN conflict_db[table_name] \ {conflict_key}
         IN [raised |-> FALSE, new_key |-> Some(new_key),
             master |-> [master_db EXCEPT ![table_name] =
                           (new_key :> conflict_db[table_name][conflict_key]) @@ @],
             conflict |-> [conflict_db EXCEPT ![table_name] =
                           [i \in kept |-> conflict_db[table_name][i]]]]

\* the inner loop of resolve_conflicts, from the n-th column on
RECURSIVE resolve_references(_, _, _)
resolve_references(st, new_key, n) ==
    IF n > Len(Columns) \/ st.raised THEN st
    ELSE LET column_name == Columns[n]
             table == RefTables[n]
             reference_id == st.master.time_log[new_key][column_name]
         IN IF reference_id # None /\ InList(reference_id[1], st.conflicts[table])
            THEN LET up == update_table_for_conflict(st.master, st.conflict,
                                                     table, reference_id[1]) IN
                 IF up.raised THEN [st EXCEPT !.raised = TRUE]
                 ELSE resolve_references(
                        [st EXCEPT
                           !.master = [up.master EXCEPT
                                         !.time_log[new_key][column_name] = up.new_key],
                           !.conflict = up.conflict,
                           !.conflicts[table] = Remove(@, reference_id[1])],
                        new_key, n + 1)
            ELSE resolve_references(st, new_key, n + 1)

\* the outer loop of resolve_conflicts over conflicts["time_log"]
RECURSIVE resolve_time_log(_, _)
resolve_time_log(st, keys) ==
    IF keys = <<>> \/ st.raised THEN st
    ELSE LET up == update_table_for_conflict(st.master, st.conflict,
                                             "time_log", keys[1]) IN
         IF up.raised THEN [st EXCEPT !.raised = TRUE]
         ELSE resolve_time_log(
                resolve_references(
                    [st EXCEPT !.master = up.master,
                               !.conflict = up.conflict,
                               !.copied = @ \cup {<<keys[1], up.new_key[1]>>}],
                    up.new_key[1], 1),
                Tail(keys))

\* resolve_conflicts: its outcome, the two databases after it, and the pairs
\* <<key in the conflict database, key in the master database>> of the
\* time_log rows it has copied. The master database is committed at the end
\* only, the conflict database in every update_table_for_conflict
resolve_conflicts(master_db, conflict_db) ==
    LET conflicts == find_conflicts(master_db, conflict_db)
        st == resolve_time_log([master |-> master_db, conflict |-> conflict_db,
                                conflicts |-> conflicts, copied |-> {},
                                raised |-> FALSE],
                               conflicts.time_log)
    IN IF st.raised
       THEN [result |-> Raise("TypeError"), master |-> master_db,
             conflict |-> st.conflict, copied |-> {}]
       ELSE [result |-> Return(None), master |-> st.master,
             conflict |-> st.conflict, copied |-> st.copied]

\* the databases the two functions are called on
TimeLogRows(comments) ==
    [category_id : {Some(1)}, task_id : {None, Some(1)},
     session_id : {Some(1)}, comment : comments]

TimeLogs(idsets, comments) ==
    UNION {[ids -> TimeLogRows(comments)] : ids \in idsets}

UserTableOf(name) == 1 :> [name |-> name]

DatabasePairs ==
    {<<[time_log |-> m, categories |-> mc,
        tasks |-> UserTableOf("A"), sessions |-> UserTableOf("A")],
       [time_log |-> c, categories |-> cc,
        tasks |-> UserTableOf(t), sessions |-> UserTableOf(s)]>> :
       m \in TimeLogs({{1, 2}, {1, 600}}, {"m"}),
       c \in TimeLogs({{2}, {1, 2}, {1, 600}}, {"m", "c"}),
       mc \in {EmptyTable, UserTableOf("A")},
       cc \in {EmptyTable, UserTableOf("A"), UserTableOf("B")},
       t \in {"A", "B"}, s \in {"A", "B"}}

InitConflicts == pc = "deconflicter" /\ InitSession

FindConflicts ==
    /\ pc = "deconflicter"
    /\ \E pair \in DatabasePairs :
         last' = Op("find_conflicts", pair, Return(None),
                    Return(find_conflicts(pair[1], pair[2])))
    /\ pc' = "exited"
    /\ UNCHANGED <<time_entries, date, today, outlook_item, outlook_queue,
                   match_pattern, enabled, time_log, sessions, n_commands>>

\* last.parsed holds the databases after the call, last.result its outcome
ResolveConflicts ==
    /\ pc = "deconflicter"
    /\ \E pair \in DatabasePairs :
         LET out == resolve_conflicts(pair[1], pair[2]) IN
         last' = Op("resolve_conflicts", pair, Return(out), out.result)
    /\ pc' = "exited"
    /\ UNCHANGED <<time_entries, date, today, outlook_item, outlook_queue,
                   match_pattern, enabled, time_log, sessions, n_commands>>

NextConflicts == FindConflicts \/ ResolveConflicts

SpecConflicts == InitConflicts /\ [][NextConflicts]_vars

---------------------------------------------------------------------------
(* The parser alone: one call of _parse_time_entry on one line *)

\* first tokens, second tokens and later tokens of the lines given to the parser
DurTokens == {"", "0", "1", "9", "10", "-1", ".5", "nan", "inf", "x"}
ArgTokens == {"", "2", "5", "2.5", "inf", "nan", "i", "I", "x"}
TailTokens == {"", "2", "i", "I", "x"}

TailLists == UNION {[1..n -> TailTokens] : n \in 0..(MaxArgs - 1)}
ArgLists == {<<>>} \cup {<<a>> \o tl : a \in ArgTokens, tl \in TailLists}

\* the lines: every first token followed by every list of argument tokens
Lines == {join(<<t>> \o args) : t \in DurTokens, args \in ArgLists}

InitParser == pc = "parser" /\ InitSession

ParseLine ==
    /\ pc = "parser"
    /\ \E raw_input \in Lines :
         LET r == _parse_time_entry(config, raw_input) IN
         last' = [op |-> "_parse_time_entry", input |-> raw_input, ctx |-> None,
                  parsed |-> r, result |-> r]
    /\ pc' = "parsed"
    /\ UNCHANGED <<time_entries, date, today, outlook_item, outlook_queue,
                   match_pattern, enabled, time_log, sessions, n_commands>>

NextParser == ParseLine

SpecParser == InitParser /\ [][NextParser]_vars

---------------------------------------------------------------------------
(* Claims about the parser, checked under SpecParser *)

ParsedLine == last.op = "_parse_time_entry"
Toks == split(last.input)
ReturnedEntry == last.result.kind = "return" /\ last.result.value # None
TheEntry == last.result.value[1]

\* the token is a number d, not NaN, with 0 <= d <= config.max_duration
InRange(tok) ==
    /\ tok \in FloatTokens
    /\ \/ float(tok).k = "tiny"
       \/ /\ float(tok).k = "num"
          /\ float(tok).n >= 0
          /\ float(tok).n <= config_max_duration * float(tok).d

\* the token is an integer literal whose value is a key of category_list
IsCategoryKey(tok) == tok \in IntTokens /\ int(tok) \in DOMAIN config_category_list

\* the token, lower-cased, is a key of task_list
IsTaskKey(tok) == lower(tok) \in DOMAIN config_task_list

\* C1: for every non-empty line the parser returns an entry only when the
\* first token is a number d, not NaN, with 0 <= d <= max_duration; when the
\* first token is no number, NaN, negative or above max_duration (inf
\* included) the call raises InputError and returns nothing.
C1_DurationGate ==
    (ParsedLine /\ last.input # EmptyStr) =>
        /\ ReturnedEntry => InRange(Toks[1])
        /\ ~InRange(Toks[1]) => last.result = Raise("InputError")

\* C1 witness: a line starting with inf and followed by arguments was rejected
C1_Witness ==
    /\ ParsedLine
    /\ Toks[1] = "inf"
    /\ Len(Toks) = 3
    /\ last.result = Raise("InputError")

\* C2: the parser returns None, returns an entry or raises InputError, and
\* raises no other kind of error, whatever the line.
C2_OnlyInputError == ParsedLine => last.result.err \in {"none", "InputError"}

C6_PermissiveFallback ==
    (/\ ParsedLine
     /\ InRange(Toks[1])
     /\ Len(Toks) >= 2
     /\ ~IsCategoryKey(Toks[2])
     /\ ~IsTaskKey(Toks[2])) =>
        /\ ReturnedEntry
        /\ TheEntry.category = None
        /\ TheEntry.task = None
        /\ TheEntry.comment = join(Rest(Toks, 2))

---------------------------------------------------------------------------
(* Claims about the add_entry handler and the session *)

\* the step just taken was a call of the add_entry handler that did not raise
HandlerReturned == last'.op = "add_entry" /\ last'.result.kind = "return"

\* duration of the handler's entry after blending: the parsed duration, or
\* the duration of the import context when the line was blank
BlendedDuration(l) ==
    IF l.parsed.value # None THEN l.parsed.value[1].duration
    ELSE IF l.ctx # None THEN Some(l.ctx[1])
    ELSE None

IsZeroCase(l) ==
    /\ l.op = "add_entry"
    /\ l.parsed.kind = "return"
    /\ \/ BlendedDuration(l) = Some(Zero)
       \/ l.parsed.value = None /\ l.ctx = None

\* C7: a handler call whose parse result, blended with the import context if
\* there is one, has duration 0, and a call with a blank line and no import
\* context, leave the pending list unchanged and raise nothing
C7_ZeroNeverStored ==
    [][IsZeroCase(last') =>
          /\ time_entries' = time_entries
          /\ last'.result.kind = "return"]_vars

\* C7 witness: with an entry already pending, a blank line was given for an
\* appointment of duration 0 and the call returned
C7_Witness ==
    /\ last.op = "add_entry"
    /\ last.input = EmptyStr
    /\ last.ctx # None
    /\ last.ctx[1] = Zero
    /\ last.result.kind = "return"
    /\ Len(time_entries) > 0

\* number of pending entries whose duration is 0
ZeroCount(entries) ==
    Cardinality({i \in 1..Len(entries) : entries[i].duration = Some(Zero)})

\* C8 as stated: in every reachable state no pending entry has duration 0
C8_NoZeroPending_Original == ZeroCount(time_entries) = 0

\* C8: a step puts a zero-duration entry into the pending list only if it is
\* titr --start appending its entry or a scale rounding durations to 0; the
\* handler, undo, clear, date, write, the import and titr --end never do
C8_ZeroOnlyFromStartOrScale ==
    [][ZeroCount(time_entries') > ZeroCount(time_entries) =>
          \/ last'.op = "start" /\ pc' = "start_added"
          \/ last'.op = "scale"]_vars

\* C8 witness: titr --start has appended its zero-duration entry, not yet
\* written
C8_Witness ==
    /\ pc = "start_added"
    /\ last.op = "start"
    /\ Len(time_entries) = 1
    /\ time_entries[1].duration = Some(Zero)

\* C9: every entry the handler appends has a duration d with
\* 0 <= d <= config.max_duration, also when d comes from the import context
C9_AppendedInRange ==
    [][(HandlerReturned /\ Len(time_entries') = Len(time_entries) + 1) =>
          LET d == time_entries'[Len(time_entries')].duration[1] IN
          /\ ~isnan(d)
          /\ ~FLt(d, Zero)
          /\ ~FGt(d, config.max_duration)]_vars

\* C10: a blank line under an import context whose duration is not 0 appends
\* exactly one entry; its duration, category and comment are those of the
\* context and its task is the default task
C10_BlankLineBlend ==
    [][(HandlerReturned /\ last'.input = EmptyStr /\ last'.ctx # None
           /\ last'.ctx[1] # Zero) =>
          /\ Len(time_entries') = Len(time_entries) + 1
          /\ SubSeq(time_entries', 1, Len(time_entries)) = time_entries
          /\ LET e == time_entries'[Len(time_entries')] IN
             /\ e.duration = Some(last'.ctx[1])
             /\ e.category = Some(last'.ctx[2])
             /\ e.comment = last'.ctx[3]
             /\ e.task = Some(config.default_task)]_vars

\* C10 witness: the 90-minute appointment was accepted with a blank line
C10_Witness ==
    /\ last.op = "add_entry"
    /\ last.input = EmptyStr
    /\ last.ctx = <<Num(3, 2), 2, <<"standup">>>>
    /\ Len(time_entries) > 0
    /\ time_entries[Len(time_entries)].comment = <<"standup">>
    /\ time_entries[Len(time_entries)].duration = Some(Num(3, 2))

\* C11: under an import context, a line that parses to an entry is stored
\* with every field the user gave (duration, category, task, non-empty
\* comment) as parsed; only an unset category and an empty comment are taken
\* from the context, and a duration of 0 is kept, so that nothing is stored
C11_PartialBlend ==
    [][(/\ HandlerReturned
        /\ last'.ctx # None
        /\ last'.parsed.kind = "return"
        /\ last'.parsed.value # None) =>
          LET p == last'.parsed.value[1]
              ctx == last'.ctx
          IN IF p.duration = Some(Zero) THEN time_entries' = time_entries
             ELSE /\ Len(time_entries') = Len(time_entries) + 1
                  /\ SubSeq(time_entries', 1, Len(time_entries)) = time_entries
                  /\ LET e == time_entries'[Len(time_entries')] IN
                     /\ e.duration = p.duration
                     /\ e.category = IF p.category # None THEN p.category
                                     ELSE Some(ctx[2])
                     /\ p.task # None => e.task = p.task
                     /\ e.comment = IF p.comment # EmptyStr THEN p.comment
                                    ELSE ctx[3]]_vars

\* C11 witness: "1 3 I y" typed at the prompt of the 10-hour appointment of
\* category 4 was stored with duration 1, category 3, task I and comment y
C11_Witness ==
    /\ last.op = "add_entry"
    /\ last.input = <<"1", SP, "3", SP, "I", SP, "y">>
    /\ last.ctx = <<Num(10, 1), 4, <<"offsite">>>>
    /\ Len(time_entries) > 0
    /\ time_entries[Len(time_entries)].duration = Some(Num(1, 1))
    /\ time_entries[Len(time_entries)].category = Some(3)
    /\ time_entries[Len(time_entries)].task = Some("I")
    /\ time_entries[Len(time_entries)].comment = <<"y">>

\* C12: ConsoleSession.add_entry with defaults enabled gives the entry the
\* default category, the default task and the date cursor where the entry
\* has none and only there, appends it as the last element of the pending
\* list, whose earlier elements stay, and returns the stored entry
C12_AcceptEntry ==
    [][(last'.op = "ConsoleSession.add_entry" /\ last'.input[2]) =>
          LET given == last'.input[1]
              e == time_entries'[Len(time_entries')]
          IN /\ Len(time_entries') = Len(time_entries) + 1
             /\ SubSeq(time_entries', 1, Len(time_entries)) = time_entries
             /\ e.category = IF given.category = None
                             THEN Some(config_default_category) ELSE given.category
             /\ e.task = IF given.task = None
                         THEN Some(config_default_task) ELSE given.task
             /\ e.date = IF given.date = None THEN Some(date) ELSE given.date
             /\ e.duration = given.duration
             /\ e.comment = given.comment
             /\ last'.result = Return(e)]_vars

\* C12 witness: with the cursor on yesterday and an entry pending, an entry
\* dated two days back, of category 3 and without a task, was accepted
C12_Witness ==
    /\ last.op = "ConsoleSession.add_entry"
    /\ last.input[2]
    /\ last.input[1].date = Some(-2)
    /\ last.input[1].category = Some(3)
    /\ last.input[1].task = None
    /\ date = -1
    /\ Len(time_entries) = 2
    /\ time_entries[2].date = Some(-2)
    /\ time_entries[2].category = Some(3)
    /\ time_entries[2].task = Some("d")

\* C13: undo removes the last pending entry and nothing else, does nothing
\* and raises nothing on an empty list, so that an undo right after an entry
\* was appended gives back the list as it was before
C13_UndoLast ==
    [][/\ last'.op = "undo" =>
             /\ last'.result.kind = "return"
             /\ time_entries' = IF time_entries = <<>> THEN <<>>
                                ELSE SubSeq(time_entries, 1, Len(time_entries) - 1)
       /\ (HandlerReturned /\ Len(time_entries') = Len(time_entries) + 1) =>
             undo_last(time_entries') = time_entries]_vars

\* C13 witness: of two different pending entries the undo has left the first
C13_Witness ==
    /\ last.op = "undo"
    /\ n_commands = 3
    /\ Len(time_entries) = 1
    /\ time_entries[1].duration = Some(Num(3, 1))

\* x == y on floats: nan is equal to nothing, itself included
FEq(x, y) == x.k # "nan" /\ y.k # "nan" /\ x = y

\* the step is a call of scale; its argument
ScaleStep == last'.op = "scale"

ScaleTarget == last'.input[1]

\* the two lists differ in nothing but the durations of their entries
SameButDuration(a, b) ==
    /\ Len(a) = Len(b)
    /\ \A i \in 1..Len(a) : [a[i] EXCEPT !.duration = b[i].duration] = b[i]

\* C14: scale on a pending list of total T0 # 0 with a numeric target T1,
\* T1 # 0 and T1 # T0, returns, keeps the number, order, category, task,
\* comment and date of the entries, makes the durations sum to T1 and keeps
\* the ratio of any two durations
C14_ProportionalScaling ==
    [][(/\ ScaleStep /\ is_float(ScaleTarget) /\ float(ScaleTarget) # Zero
        /\ SumDurations(time_entries).k = "num"
        /\ SumDurations(time_entries) # Zero
        /\ FSub(float(ScaleTarget), SumDurations(time_entries)) # Zero) =>
          /\ last'.result.kind = "return"
          /\ SameButDuration(time_entries, time_entries')
          /\ FEq(SumDurations(time_entries'), float(ScaleTarget))
          /\ \A i, j \in 1..Len(time_entries) :
                FEq(FMul(time_entries'[i].duration[1], time_entries[j].duration[1]),
                    FMul(time_entries'[j].duration[1], time_entries[i].duration[1]))]_vars

\* C15: scale with a target that is no number or is zero raises InputError
\* and leaves the pending list and the date cursor as they were
C15_ScaleRefused ==
    [][(ScaleStep /\ (~is_float(ScaleTarget) \/ float(ScaleTarget) = Zero)) =>
          /\ last'.result = Raise("InputError")
          /\ time_entries' = time_entries
          /\ date' = date]_vars

\* C15 witness: a target of zero was refused on a pending list of two entries
C15_Witness ==
    /\ last.op = "scale"
    /\ last.input = <<"0">>
    /\ last.result = Raise("InputError")
    /\ Len(time_entries) = 2

C17_ScaleFromZero ==
    [][(/\ ScaleStep /\ is_float(ScaleTarget) /\ float(ScaleTarget) # Zero
        /\ \A i \in 1..Len(time_entries) : time_entries[i].duration = Some(Zero)) =>
          /\ FSub(float(ScaleTarget), SumDurations(time_entries)) # Zero
          /\ last'.result = Return(None)
          /\ time_entries' = time_entries]_vars

\* C17 witness: scale 2 on a pending list whose one entry has duration 0
C17_Witness ==
    /\ last.op = "scale"
    /\ last.input = <<"2">>
    /\ last.result = Return(None)
    /\ Len(time_entries) = 1
    /\ time_entries[1].duration = Some(Zero)

\* the step is a call of set_date; its argument (None or a token)
DateStep == last'.op = "date"

DateArg == last'.input

\* C18: set_date with no token or an empty one sets the cursor to today;
\* with an integer n <= 0 it sets the cursor to today + n; with an ISO date
\* not after today it sets the cursor to that date; each time it returns
C18_SetDateValid ==
    [][DateStep =>
          /\ (DateArg = None \/ DateArg = Some("")) =>
                last'.result = Return(None) /\ date' = today
          /\ (DateArg # None /\ DateArg[1] \in IntTokens /\ int(DateArg[1]) <= 0) =>
                last'.result = Return(None) /\ date' = today + int(DateArg[1])
          /\ (DateArg # None /\ DateArg[1] \in IsoTokens
                /\ fromisoformat(DateArg[1]) <= today) =>
                last'.result = Return(None) /\ date' = fromisoformat(DateArg[1])]_vars

\* C19: set_date with a positive integer, with an ISO date after today, or
\* with a token that is neither an integer nor an ISO date raises InputError
\* and nothing else, and the cursor keeps its value
C19_SetDateInvalid ==
    [][(/\ DateStep /\ DateArg # None /\ DateArg # Some("")
        /\ \/ DateArg[1] \in IntTokens /\ int(DateArg[1]) > 0
           \/ DateArg[1] \in IsoTokens /\ fromisoformat(DateArg[1]) > today
           \/ DateArg[1] \notin IntTokens \cup IsoTokens) =>
          /\ last'.result = Raise("InputError")
          /\ date' = date]_vars

\* C19 witness: with the cursor on yesterday, the date of tomorrow was refused
C19_Witness ==
    /\ last.op = "date"
    /\ last.input = Some("2000-01-02")
    /\ last.result = Raise("InputError")
    /\ today = 0
    /\ date = -1

\* C20: the cursor is never after today; it changes only in a set_date that
\* returns; set_date leaves the pending list as it was
C20_CursorNotFuture ==
    /\ [](date <= today)
    /\ [][/\ date' # date => (DateStep /\ last'.result.kind = "return")
          /\ DateStep => time_entries' = time_entries]_vars

\* C20 witness: the cursor was set to a past date with an entry pending, and
\* a day has passed since
C20_Witness ==
    /\ last.op = "tick"
    /\ today = 1
    /\ date = -1
    /\ Len(time_entries) = 1

\* C21: the cursor of a session just constructed is today as of the
\* construction, and set_date without a token sets the cursor to today as of
\* the call
C21_FreshToday ==
    [][/\ last'.op = "ConsoleSession" => date' = today'
       /\ (DateStep /\ DateArg = None) =>
             last'.result = Return(None) /\ date' = today']_vars

\* the step is a call of write_db: the write command where it is enabled,
\* the second half of --start, or the confirmed --end
WriteStep ==
    \/ last'.op = "write" /\ enabled["write"]
    \/ last'.op = "start_write"
    \/ last'.op = "end_confirm" /\ last'.input = <<"y">>

\* the pending entries that carry no persisted id, in pending order
Unpersisted(entries) == SelectSeq(entries, LAMBDA e : e.time_log_id = None)

\* C22: write_db on an empty pending list raises InputError and leaves the
\* database; on a pending list that is not empty it opens one new session,
\* replaces the row of every entry that carries a persisted id, appends one
\* row for every other entry in pending order, leaves all other rows, and
\* empties the pending list
C22_Commit ==
    [][WriteStep =>
          IF time_entries = <<>>
          THEN /\ last'.result = Raise("InputError")
               /\ time_log' = time_log
               /\ sessions' = sessions
               /\ time_entries' = <<>>
          ELSE LET sid == Len(sessions) + 1
                   new == Unpersisted(time_entries)
                   old == {i \in 1..Len(time_entries) : time_entries[i].time_log_id # None}
               IN /\ last'.result = Return(None)
                  /\ time_entries' = <<>>
                  /\ Len(sessions') = sid
                  /\ SubSeq(sessions', 1, Len(sessions)) = sessions
                  /\ Len(time_log') = Len(time_log) + Len(new)
                  /\ \A k \in 1..Len(new) :
                        LET row == time_log'[Len(time_log) + k] IN
                        /\ row.id \notin RowIds(time_log)
                        /\ row = EntryRow(new[k], row.id, sid)
                        /\ \A j \in 1..Len(new) :
                              time_log'[Len(time_log) + j].id = row.id => j = k
                  /\ \A i \in old :
                        \E r \in 1..Len(time_log) :
                           /\ time_log[r].id = time_entries[i].time_log_id[1]
                           /\ time_log'[r] = EntryRow(time_entries[i], time_log[r].id, sid)
                  /\ \A r \in 1..Len(time_log) :
                        (\A i \in old : time_entries[i].time_log_id[1] # time_log[r].id)
                           => time_log'[r] = time_log[r]]_vars

\* C22 witness: two entries were committed by the write command: two rows in
\* pending order under one session, and nothing pending
C22_Witness ==
    /\ last.op = "write"
    /\ last.result = Return(None)
    /\ time_entries = <<>>
    /\ Len(time_log) = 2
    /\ time_log[1].duration = Some(Num(1, 1))
    /\ time_log[2].duration = Some(Num(1, 2))
    /\ time_log[1].session_id = time_log[2].session_id

SingleSpaced(line) == join(SelectSeq(split(line), LAMBDA t : t # ""))

\* C24: a line with runs of two or more spaces between its tokens (none in
\* front, none at the end) parses to what the same tokens separated by
\* single spaces parse to
C24_SpacesIrrelevant ==
    (ParsedLine /\ Toks[1] # "" /\ Toks[Len(Toks)] # "") =>
        last.result = _parse_time_entry(config, SingleSpaced(last.input))

\* C25: an entry typed with a known task key in upper or lower case is
\* accepted with the name of that task, and the row a commit writes for it
\* has the id of that task
C25_TaskCaseInsensitive ==
    [][/\ (HandlerReturned /\ Len(time_entries') = Len(time_entries) + 1) =>
             LET e == time_entries'[Len(time_entries')] IN
             (e.task # None /\ lower(e.task[1]) \in DOMAIN config_task_list) =>
                 e.tsk_str = config_task_list[lower(e.task[1])]
       /\ (WriteStep /\ time_entries # <<>>) =>
             LET new == Unpersisted(time_entries) IN
             \A k \in 1..Len(new) :
                (new[k].task # None /\ lower(new[k].task[1]) \in DOMAIN tasks_id) =>
                    time_log'[Len(time_log) + k].task_id =
                        Some(tasks_id[lower(new[k].task[1])])]_vars

\* the session state a handler could change is what it was
SessionUnchanged ==
    UNCHANGED <<pc, time_entries, date, outlook_item, outlook_queue,
                match_pattern, enabled, time_log, sessions>>

\* C26 as stated: a line whose first token parses as a float goes to the
\* add_entry handler; every other line goes to the command of its first
\* token, and to no handler, with no change of state, when there is none
C26_Dispatch_Original ==
    [][\A line \in DispatchLines : ReadLine(line) =>
          IF is_float(split(line)[1]) THEN last'.op = "add_entry"
          ELSE IF split(line)[1] \in DOMAIN cmd_dict
               THEN last'.op = cmd_dict[split(line)[1]]
               ELSE last'.op = "none" /\ SessionUnchanged]_vars

\* C26 amended: a line the add_entry pattern matches (first token a float;
\* also the blank line while the import has set its pattern) goes to the
\* add_entry handler; every other line goes to the command of its first
\* token, and to no handler, with no change of state, when there is none
C26_Dispatch ==
    [][\A line \in DispatchLines : ReadLine(line) =>
          IF \/ is_float(split(line)[1])
             \/ line = EmptyStr /\ match_pattern = "outlook_entry_pattern"
          THEN last'.op = "add_entry"
          ELSE IF split(line)[1] \in DOMAIN cmd_dict
               THEN last'.op = cmd_dict[split(line)[1]]
               ELSE last'.op = "none" /\ SessionUnchanged]_vars

\* C26 witness: with an entry pending, a line of an unknown word and a
\* number was not recognized
C26_Witness ==
    /\ last.op = "none"
    /\ last.input = <<"bogus", SP, "1">>
    /\ Len(time_entries) = 1
    /\ pc = "console"

\* C27: while the import prompts, date, write and quit are disabled and the
\* blank line is an entry; quit at a prompt of the import ends the import and
\* not the run, and no further appointment is offered; when the import has
\* returned the three commands are enabled, the pattern is the normal one
\* and the import context is cleared
C27_ImportBracketed ==
    /\ [](pc = "import" =>
            enabled = AllDisabled /\ match_pattern = "outlook_entry_pattern")
    /\ [](pc = "console" =>
            /\ enabled = AllEnabled
            /\ match_pattern = "time_entry_pattern"
            /\ outlook_item = None)
    /\ [][(pc = "import" /\ last'.op = "quit") =>
            pc' = "console" /\ outlook_item' = None]_vars

\* C28: db_populate_user_table with no user_key and a name the table has
\* returns the id of the row of that name, adds no row, leaves the user_key
\* of that row, and every user key resolves to the row it resolved to
C28_PopulateKeepsKey ==
    [][(/\ last'.op = "db_populate_user_table"
        /\ last'.input[3] = None
        /\ select_by_name(last'.input[1], last'.input[2]) # None) =>
          LET table == last'.input[1]
              id == select_by_name(table, last'.input[2])[1]
              out == last'.result.value
          IN /\ out[1] = id
             /\ DOMAIN out[2] = DOMAIN table
             /\ out[2][id].user_key = table[id].user_key
             /\ \A k \in TableKeys :
                   select_by_user_key(out[2], k) = select_by_user_key(table, k)]_vars

\* a key whose row exists in both tables with different data
IsConflict(master_table, conflict_table, id) ==
    /\ id \in DOMAIN master_table \cap DOMAIN conflict_table
    /\ master_table[id] # conflict_table[id]

\* C29: after resolve_conflicts has returned, every time_log row it has
\* copied into the master database whose category_id, task_id or session_id
\* was a conflicting key refers to a row the call has added to the master
\* database, holding the data of the conflict database's row of that key
C29_ReferencesRewritten ==
    [][(last'.op = "resolve_conflicts" /\ last'.result.kind = "return") =>
          LET master_db == last'.input[1]
              conflict_db == last'.input[2]
              out == last'.parsed.value
          IN \A copy \in out.copied : \A n \in DOMAIN Columns :
               LET reference_id == conflict_db.time_log[copy[1]][Columns[n]]
                   table == RefTables[n]
                   now == out.master.time_log[copy[2]][Columns[n]]
               IN (/\ reference_id # None
                   /\ IsConflict(master_db[table], conflict_db[table], reference_id[1]))
                  => /\ now # None
                     /\ now[1] \in DOMAIN out.master[table] \ DOMAIN master_db[table]
                     /\ out.master[table][now[1]] = conflict_db[table][reference_id[1]]]_vars

\* C30: find_conflicts returns, for each table, exactly the keys whose row
\* exists with different data in the master and the conflict database
C30_ExactlyTheConflicts ==
    [][last'.op = "find_conflicts" =>
          \A t \in DbTables :
             {last'.result.value[t][i] : i \in DOMAIN last'.result.value[t]}
               = {id \in DOMAIN last'.input[1][t] :
                    IsConflict(last'.input[1][t], last'.input[2][t], id)}]_vars

====
